---- MODULE Spec2Model ----
(***************************************************************************)
(* Model of zoom.py: the session orchestrator start_recording_A, the       *)
(* recording-control call _obs_request, the window/process monitor, the    *)
(* file finalization watcher wait_for_file_ready and the task queue        *)
(* queue_audio_task.                                                       *)
(*                                                                         *)
(* Text is a sequence of one-character strings, so that substring and      *)
(* suffix tests are computed and not assumed.  A session runs as one       *)
(* sequential process whose position is pc[s]; each blocking point of the  *)
(* code (a poll, a recv, a file read or write) is one step.                *)
(***************************************************************************)
EXTENDS Integers, Sequences, FiniteSets, TLC

\* ---------------------------------------------------------------- bounds
\* frames the recording service may send on one connection
MaxFrames == 4
\* largest file size (in blocks) the finalization watcher may observe
MaxSize == 2
\* window titles in one snapshot of list_window_titles
MaxTitles == 1
\* polls of wait_for_file_ready counted since the file last changed
MaxQuiet == 2
\* largest timeout_sec wait_for_meeting_window is tried with
MaxTimeout == 2

\* ------------------------------------------------------ program constants
\* wait_for_meeting_window(meet_id, timeout_sec=60)
JoinTimeout == 60
\* wait_for_file_ready(path, timeout_sec=30)
FileTimeout == 30

Sessions == {"s1", "s2"}

\* ------------------------------------------------------------------ text
Txt_zoom == <<"z", "o", "o", "m">>
Txt_zoom_meeting == <<"z", "o", "o", "m", " ", "m", "e", "e", "t", "i", "n", "g">>

\* str.lower() on one character
LowerChar(c) ==
    CASE c = "Z" -> "z" [] c = "O" -> "o" [] c = "M" -> "m" [] c = "E" -> "e"
      [] c = "T" -> "t" [] c = "I" -> "i" [] c = "N" -> "n" [] c = "G" -> "g"
      [] c = "J" -> "j" [] OTHER -> c

\* str.lower()
Lower(t) == [i \in 1..Len(t) |-> LowerChar(t[i])]

\* sub in t
Contains(t, sub) ==
    \E i \in 0..(Len(t) - Len(sub)) : SubSeq(t, i + 1, i + Len(sub)) = sub

\* t.endswith(suf)
EndsWith(t, suf) ==
    /\ Len(t) >= Len(suf)
    /\ SubSeq(t, Len(t) - Len(suf) + 1, Len(t)) = suf

\* truthiness of a string or of None (None and '' are both the empty text)
Truthy(t) == t # <<>>

\* faulty variant of TitleMatches: the meeting id is not looked for
TitleMatches_GenericOnly(meet_id, title) ==
    \/ Contains(Lower(title), Txt_zoom_meeting)
    \/ EndsWith(Lower(title), Txt_zoom)

\* the test wait_for_meeting_window applies to one title
TitleMatches(meet_id, title) ==
    \/ (Truthy(meet_id) /\ Contains(title, meet_id))
    \/ Contains(Lower(title), Txt_zoom_meeting)
    \/ EndsWith(Lower(title), Txt_zoom)

\* faulty variant of CloseTitleMatches: the endswith('zoom') test is left out
CloseTitleMatches_NoSuffix(meet_id, title) ==
    LET lt == Lower(title)
    IN  \/ Truthy(meet_id) /\ Contains(title, meet_id)
        \/ Contains(lt, Txt_zoom_meeting)

\* the test wait_for_meeting_window_close applies to one title
CloseTitleMatches(meet_id, title) ==
    LET lt == Lower(title)
    IN  \/ Truthy(meet_id) /\ Contains(title, meet_id)
        \/ Contains(lt, Txt_zoom_meeting)
        \/ EndsWith(lt, Txt_zoom)

\* `found` of wait_for_meeting_window_close after its for loop
AnyCloseTitleMatches(meet_id, titles) ==
    \E i \in 1..Len(titles) : CloseTitleMatches(meet_id, titles[i])

\* some title of the snapshot passes the test of wait_for_meeting_window
AnyTitleMatches(meet_id, titles) ==
    \E i \in 1..Len(titles) : TitleMatches(meet_id, titles[i])

\* titles the environment may show
TitlePool ==
    { <<"a", "1", "2">>,
      <<"Z", "o", "o", "m", " ", "M", "e", "e", "t", "i", "n", "g">>,
      <<"Z", "O", "O", "M">>,
      <<"z", "o", "o", "m", "s">>,
      <<"x">> }

\* snapshots list_window_titles may return
RECURSIVE SeqsUpTo(_, _)
SeqsUpTo(S, n) ==
    IF n = 0 THEN { <<>> }
    ELSE LET shorter == SeqsUpTo(S, n - 1)
         IN  shorter \cup { Append(q, x) : q \in shorter, x \in S }

Snapshots == SeqsUpTo(TitlePool, MaxTitles)

\* ------------------------------------------------------------ join URLs
\* urlparse(raw_url).path.split('/') of the join URLs given to the sessions:
\* /j/12 , /my/ab , /j/
UrlWithId == << <<>>, <<"j">>, <<"1", "2">> >>
UrlNoJ == << <<>>, <<"m", "y">>, <<"a", "b">> >>
UrlNoId == << <<>>, <<"j">>, <<>> >>

UrlPool == {UrlWithId, UrlNoJ, UrlNoId}

\* the part after the first part equal to 'j' (case-insensitive), if any
AfterJ(parts) ==
    LET hits == { i \in 1..Len(parts) : Lower(parts[i]) = <<"j">> /\ i + 1 <= Len(parts) }
    IN  IF hits = {} THEN <<>>
        ELSE parts[(CHOOSE i \in hits : \A k \in hits : i <= k) + 1]

\* meeting id extraction of start_recording_A
ExtractMeetId(parts) ==
    IF Truthy(AfterJ(parts)) THEN AfterJ(parts)
    ELSE IF Len(parts) > 0 THEN parts[Len(parts)]
    ELSE <<>>

\* ------------------------------------------------------------- metadata
\* the value dict.get returns for a missing key
NoneVal == "<None>"

\* event.get('metadata'): absent, {}, {faculty, classText}, {faculty}, a list
MdNone == [kind |-> "none", n |-> 0, faculty |-> NoneVal, classText |-> NoneVal]
MdEmpty == [kind |-> "dict", n |-> 0, faculty |-> NoneVal, classText |-> NoneVal]
MdFull == [kind |-> "dict", n |-> 2, faculty |-> "Fac", classText |-> "ClsA"]
MdFacultyOnly == [kind |-> "dict", n |-> 1, faculty |-> "Fac", classText |-> NoneVal]
MdList == [kind |-> "list", n |-> 1, faculty |-> NoneVal, classText |-> NoneVal]

MdPool == {MdNone, MdEmpty, MdFull, MdFacultyOnly, MdList}

\* truthiness of a metadata value
MdTruthy(md) == md.kind # "none" /\ md.n > 0

\* ---------------------------------------------------------------- paths
\* a file path: directory components, file name stem and extension
EmptyPath == [dir |-> <<>>, base |-> "", ext |-> ""]
PathA == [dir |-> <<"rec">>, base |-> "m1", ext |-> ".mp4"]
PathB == [dir |-> <<"tmp">>, base |-> "x", ext |-> ".mkv"]

\* an optional value: dict.get(key) is None when has is FALSE
Absent == [has |-> FALSE, val |-> EmptyPath]
Some(p) == [has |-> TRUE, val |-> p]

\* faulty variant of PathTruthy: `if out:` is not tested
PathTruthy_Always(o) == TRUE

\* truthiness of resp...get('outputPath')
PathTruthy(o) == o.has /\ o.val # EmptyPath

\* os.getcwd()
Cwd == <<"cwd">>

\* ------------------------------------------------------- control frames
\* f"start_{event.get('id')}" and f"stop_{event.get('id')}"
RequestId(requestType, id) ==
    IF requestType = "StartRecord" THEN <<"start", id>> ELSE <<"stop", id>>

OtherId == <<"evt", "0">>
NoId == <<>>

\* a text frame as the service sends it. json: "invalid" (json.loads raises),
\* "array" (valid JSON, not an object) or "object"; op -1 is a missing op;
\* d and responseData: "absent", "null" or "object"
Frame(json, op, d, rid, rdata, path) ==
    [json |-> json, op |-> op, d |-> d, requestId |-> rid,
     responseData |-> rdata, outputPath |-> path]

Hello == Frame("object", 0, "object", NoId, "absent", Absent)
Identified == Frame("object", 2, "object", NoId, "absent", Absent)
EventFrame == Frame("object", 5, "object", NoId, "absent", Absent)
Garbage == Frame("invalid", -1, "absent", NoId, "absent", Absent)
ArrayFrame == Frame("array", -1, "absent", NoId, "absent", Absent)
RespNoD == Frame("object", 7, "absent", NoId, "absent", Absent)
RespNullD == Frame("object", 7, "null", NoId, "absent", Absent)
Resp(rid, rdata, path) == Frame("object", 7, "object", rid, rdata, path)

\* frames the service may send to session id
FramePool(id) ==
    { Hello, Identified, EventFrame, Garbage, ArrayFrame, RespNoD, RespNullD,
      Resp(OtherId, "object", Some(PathB)),
      Resp(RequestId("StartRecord", id), "absent", Absent),
      Resp(RequestId("StopRecord", id), "absent", Absent),
      Resp(RequestId("StopRecord", id), "null", Absent),
      Resp(RequestId("StopRecord", id), "object", Absent),
      Resp(RequestId("StopRecord", id), "object", Some(EmptyPath)),
      Resp(RequestId("StopRecord", id), "object", Some(PathA)) }

NoFrame == Frame("none", -1, "absent", NoId, "absent", Absent)

\* ----------------------------------------------------------- task queue
\* the content of audio_schedules.json: no file, a file json.load rejects,
\* a JSON value that is not a list, or a list of tasks
StoreMissing == [kind |-> "missing", items |-> <<>>]
StoreCorrupt == [kind |-> "corrupt", items |-> <<>>]
StoreObject == [kind |-> "object", items |-> <<>>]
StoreList(items) == [kind |-> "list", items |-> items]

OldTask ==
    [id |-> 0, url |-> PathB, fileNameWithoutExt |-> "x", extension |-> ".mkv",
     destFolder |-> <<"tmp">>, hasMetadata |-> FALSE, metadata |-> MdNone]

StorePool ==
    {StoreMissing, StoreCorrupt, StoreObject, StoreList(<<>>), StoreList(<<OldTask>>)}

\* ------------------------------------------------------ the output file
\* what one poll sees of the file: no file, a file whose size cannot be read,
\* or a file of some size
NoFile == <<"absent", 0>>
Unreadable == <<"unreadable", 0>>
FileSamples == {NoFile, Unreadable} \cup {<<"size", n>> : n \in 0..MaxSize}

\* ---------------------------------------------------------------- state
VARIABLES
    pc,            \* position of each session in start_recording_A
    event,         \* the session descriptor
    meet_id,       \* extracted meeting id
    window_found,  \* result of wait_for_meeting_window
    elapsed,       \* seconds since the current timed wait started
    cpc,           \* position in _obs_request
    conn,          \* the call's connection: "none", "open", "closed"
    wire,          \* the frame the next recv on the connection returns
    nsent,         \* frames the service has sent on the connection
    msg,           \* the frame _obs_request received last and dropped
    resp,          \* the response _obs_request returned last
    out,           \* the output path extracted from the stop response
    tasks,         \* the list queue_audio_task is building
    last_size,     \* wait_for_file_ready's last measured size
    outcome,       \* "none", "Queued", "Failed"
    errors,        \* what the session logged as error or warning
    log,           \* the session's events, in order
    store,         \* audio_schedules.json
    nextId,        \* source of fresh task ids
    timeout_sec,   \* the timeout_sec wait_for_meeting_window is called with
    titles,        \* the window titles list_window_titles() returns now
    running,       \* whether tasklist shows Zoom.exe now
    cancelled,     \* whether the process was sent an interrupt during the wait
    file,          \* what os.path.exists / getsize see of the output file now
    quiet,         \* polls of wait_for_file_ready since the file last changed
    recording      \* whether the recording service is recording

vars ==
    <<pc, event, meet_id, window_found, elapsed, cpc, conn, wire, nsent, msg, resp,
      out, tasks, last_size, outcome, errors, log, store, nextId,
      timeout_sec, titles, running, cancelled, file, quiet, recording>>

\* the desktop, a pending interrupt and the output file as the session's waits
\* meet them; they are followed only while the session waits on them
desktop == <<titles, running, cancelled>>
disk == <<file, quiet>>

\* the sessions of `active` are about to run start_recording_A(event)
InitSession(active) ==
    /\ pc = [s \in Sessions |-> IF s \in active THEN "launch" ELSE "off"]
    /\ event \in [Sessions -> [id : Sessions, parts : UrlPool, metadata : MdPool]]
    /\ \A s \in Sessions : event[s].id = s
    /\ \A s \in Sessions \ active :
          event[s] = [id |-> s, parts |-> UrlNoId, metadata |-> MdNone]
    /\ meet_id = [s \in Sessions |-> <<>>]
    /\ window_found = [s \in Sessions |-> FALSE]
    /\ elapsed = [s \in Sessions |-> 0]
    /\ cpc = [s \in Sessions |-> "none"]
    /\ conn = [s \in Sessions |-> "none"]
    /\ wire = [s \in Sessions |-> NoFrame]
    /\ nsent = [s \in Sessions |-> 0]
    /\ msg = [s \in Sessions |-> NoFrame]
    /\ resp = [s \in Sessions |-> NoFrame]
    /\ out = [s \in Sessions |-> Absent]
    /\ tasks = [s \in Sessions |-> StoreList(<<>>)]
    /\ last_size = [s \in Sessions |-> -1]
    /\ outcome = [s \in Sessions |-> "none"]
    /\ errors = [s \in Sessions |-> {}]
    /\ log = [s \in Sessions |-> <<>>]
    /\ store \in StorePool
    /\ nextId = 1
    /\ titles = [s \in Sessions |-> <<>>]
    /\ running = [s \in Sessions |-> TRUE]
    /\ cancelled = [s \in Sessions |-> FALSE]
    /\ file = [s \in Sessions |-> NoFile]
    /\ quiet = [s \in Sessions |-> 0]
    /\ recording = FALSE

\* start_recording_A calls wait_for_meeting_window(meet_id, timeout_sec=60)
InitWith(active) ==
    /\ timeout_sec = [s \in Sessions |-> JoinTimeout]
    /\ InitSession(active)

Init == InitWith({"s1"})

\* ------------------------------------------------------------- helpers
Logged(s, kind, what) == log' = [log EXCEPT ![s] = Append(@, <<kind, what>>)]

Noted(s, what) == errors' = [errors EXCEPT ![s] = @ \cup {what}]

\* the function returns: the session is over with this outcome
Ended(s, how) ==
    /\ pc' = [pc EXCEPT ![s] = "done"]
    /\ outcome' = [outcome EXCEPT ![s] = how]

\* the request the session is making at "start" and at "stop"
RequestType(s) == IF pc[s] = "start" THEN "StartRecord" ELSE "StopRecord"

\* ------------------------------------------- start_recording_A: launch
\* faulty variant of LaunchFailed: the `return` after the error log is missing
LaunchFailed_Proceeds(s) ==
    /\ Noted(s, "launch")
    /\ pc' = [pc EXCEPT ![s] = "join"]
    /\ UNCHANGED <<elapsed, log, outcome>>

\* os.startfile raised: the error is logged and the function returns
LaunchFailed(s) ==
    /\ Noted(s, "launch")
    /\ Ended(s, "Failed")
    /\ UNCHANGED <<elapsed, log>>

\* os.startfile returned: the join clicks follow, then join detection
LaunchSucceeded(s) ==
    /\ pc' = [pc EXCEPT ![s] = "join"]
    /\ elapsed' = [elapsed EXCEPT ![s] = 0]
    /\ Logged(s, "launch", "ok")
    /\ UNCHANGED <<outcome, errors>>

\* meeting id extraction, os.startfile(launch_url) and the join clicks
start_recording_A_launch(s) ==
    /\ pc[s] = "launch"
    /\ meet_id' = [meet_id EXCEPT ![s] = ExtractMeetId(event[s].parts)]
    /\ \/ LaunchSucceeded(s)
       \/ LaunchFailed(s)
    /\ UNCHANGED <<event, window_found, cpc, conn, wire, nsent, msg, resp, out, tasks,
                   last_size, store, nextId>>
    /\ UNCHANGED <<recording, timeout_sec, desktop, disk>>

\* --------------------------------------- start_recording_A: join detection
\* join detection is over with result `found`; the StartRecord call is next
JoinDone(s, found, why) ==
    /\ window_found' = [window_found EXCEPT ![s] = found]
    /\ pc' = [pc EXCEPT ![s] = "start"]
    /\ cpc' = [cpc EXCEPT ![s] = "connect"]
    /\ elapsed' = [elapsed EXCEPT ![s] = 0]
    /\ Logged(s, "join", why)
    /\ errors' = [errors EXCEPT ![s] = IF found THEN @ ELSE @ \cup {why}]
    /\ titles' = [titles EXCEPT ![s] = <<>>]

\* no meeting id: wait_for_meeting_window is not called
start_recording_A_no_id(s) ==
    /\ pc[s] = "join"
    /\ ~Truthy(meet_id[s])
    /\ JoinDone(s, FALSE, "no_id")
    /\ UNCHANGED <<event, meet_id, conn, wire, nsent, msg, resp, out, tasks,
                   last_size, outcome, store, nextId>>
    /\ UNCHANGED <<recording, timeout_sec, running, cancelled, disk>>

\* faulty variant of wait_for_meeting_window: `while True`, no clock is read
wait_for_meeting_window_NoTimeout(s) ==
    /\ pc[s] = "join"
    /\ Truthy(meet_id[s])
    /\ IF AnyTitleMatches(meet_id[s], titles[s])
       THEN JoinDone(s, TRUE, "found")
       ELSE UNCHANGED <<elapsed, window_found, pc, cpc, log, errors, titles>>
    /\ UNCHANGED <<recording, timeout_sec, running, cancelled, disk>>
    /\ UNCHANGED <<event, meet_id, conn, wire, nsent, msg, resp, out, tasks,
                   last_size, outcome, store, nextId>>

\* one iteration of wait_for_meeting_window's loop: a snapshot of the titles,
\* return True at the first match, else sleep(1)
wait_for_meeting_window(s) ==
    /\ pc[s] = "join"
    /\ Truthy(meet_id[s])
    /\ elapsed[s] < timeout_sec[s]
    /\ IF AnyTitleMatches(meet_id[s], titles[s])
       THEN JoinDone(s, TRUE, "found")
       ELSE /\ elapsed' = [elapsed EXCEPT ![s] = @ + 1]
            /\ UNCHANGED <<window_found, pc, cpc, log, errors, titles>>
    /\ UNCHANGED <<recording, timeout_sec, running, cancelled, disk>>
    /\ UNCHANGED <<event, meet_id, conn, wire, nsent, msg, resp, out, tasks,
                   last_size, outcome, store, nextId>>

\* the loop condition fails: wait_for_meeting_window returns False
wait_for_meeting_window_timeout(s) ==
    /\ pc[s] = "join"
    /\ Truthy(meet_id[s])
    /\ elapsed[s] >= timeout_sec[s]
    /\ JoinDone(s, FALSE, "timeout")
    /\ UNCHANGED <<event, meet_id, conn, wire, nsent, msg, resp, out, tasks,
                   last_size, outcome, store, nextId>>
    /\ UNCHANGED <<recording, timeout_sec, running, cancelled, disk>>

\* --------------------------------------------------------- _obs_request
\* the service puts a frame on the connection
service_send(s) ==
    /\ conn[s] = "open"
    /\ wire[s] = NoFrame
    /\ nsent[s] < MaxFrames
    /\ \E f \in FramePool(event[s].id) : wire' = [wire EXCEPT ![s] = f]
    /\ nsent' = [nsent EXCEPT ![s] = @ + 1]
    /\ UNCHANGED <<pc, event, meet_id, window_found, elapsed, cpc, conn, msg, resp, out,
                   tasks, last_size, outcome, errors, log, store, nextId>>
    /\ UNCHANGED <<recording, timeout_sec, desktop, disk>>

\* the service closes the connection; a frame already sent can still be read
service_close(s) ==
    /\ conn[s] = "open"
    /\ conn' = [conn EXCEPT ![s] = "closed"]
    /\ UNCHANGED <<pc, event, meet_id, window_found, elapsed, cpc, wire, nsent, msg, resp,
                   out, tasks, last_size, outcome, errors, log, store, nextId>>
    /\ UNCHANGED <<recording, timeout_sec, desktop, disk>>

\* leaving `async with websockets.connect(...)`: the connection is closed
\* (the locals of a function that has returned are reset to their first value)
CallOver(s, how, events) ==
    /\ cpc' = [cpc EXCEPT ![s] = how]
    /\ conn' = [conn EXCEPT ![s] = "none"]
    /\ wire' = [wire EXCEPT ![s] = NoFrame]
    /\ nsent' = [nsent EXCEPT ![s] = 0]
    /\ msg' = [msg EXCEPT ![s] = NoFrame]
    /\ log' = [log EXCEPT ![s] = @ \o events \o << <<"close", RequestType(s)>> >>]

\* an exception leaves _obs_request
CallRaised(s) ==
    /\ CallOver(s, "raised", << <<"error", RequestType(s)>> >>)
    /\ UNCHANGED resp

\* `return obj`
CallReturned(s, f) ==
    /\ CallOver(s, "returned", << <<"response", RequestType(s)>> >>)
    /\ resp' = [resp EXCEPT ![s] = f]

\* faulty variant of obs_request_connect: a call is made only while no other
\* session is between its StartRecord and its StopRecord
obs_request_connect_Serialized(s) ==
    /\ \A o \in Sessions \ {s} : pc[o] \notin {"start", "await_end", "stop"}
    /\ pc[s] \in {"start", "stop"}
    /\ cpc[s] = "connect"
    /\ \/ /\ cpc' = [cpc EXCEPT ![s] = "raised"]
          /\ Logged(s, "error", RequestType(s))
          /\ UNCHANGED conn
       \/ /\ cpc' = [cpc EXCEPT ![s] = "hello"]
          /\ conn' = [conn EXCEPT ![s] = "open"]
          /\ Logged(s, "connect", RequestType(s))
    /\ nsent' = [nsent EXCEPT ![s] = 0]
    /\ wire' = [wire EXCEPT ![s] = NoFrame]
    /\ UNCHANGED <<pc, event, meet_id, window_found, elapsed, msg, resp, out, tasks,
                   last_size, outcome, errors, store, nextId>>
    /\ UNCHANGED <<recording, timeout_sec, desktop, disk>>

\* websockets.connect(OBS_URI): refused, or a connection opened for this call
obs_request_connect(s) ==
    /\ pc[s] \in {"start", "stop"}
    /\ cpc[s] = "connect"
    /\ \/ /\ cpc' = [cpc EXCEPT ![s] = "raised"]
          /\ Logged(s, "error", RequestType(s))
          /\ UNCHANGED conn
       \/ /\ cpc' = [cpc EXCEPT ![s] = "hello"]
          /\ conn' = [conn EXCEPT ![s] = "open"]
          /\ Logged(s, "connect", RequestType(s))
    /\ nsent' = [nsent EXCEPT ![s] = 0]
    /\ wire' = [wire EXCEPT ![s] = NoFrame]
    /\ UNCHANGED <<pc, event, meet_id, window_found, elapsed, msg, resp, out, tasks,
                   last_size, outcome, errors, store, nextId>>
    /\ UNCHANGED <<recording, timeout_sec, desktop, disk>>

\* ws.recv() with nothing left to read on a connection the service closed
obs_request_recv_closed(s) ==
    /\ cpc[s] \in {"hello", "identified", "response"}
    /\ conn[s] = "closed"
    /\ wire[s] = NoFrame
    /\ CallRaised(s)
    /\ UNCHANGED <<pc, event, meet_id, window_found, elapsed, out, tasks,
                   last_size, outcome, errors, store, nextId>>
    /\ UNCHANGED <<recording, timeout_sec, desktop, disk>>

\* ws.send(...) : raises on a connection the service closed
Sent(s, next, kind) ==
    IF conn[s] = "closed"
    THEN CallRaised(s)
    ELSE /\ cpc' = [cpc EXCEPT ![s] = next]
         /\ wire' = [wire EXCEPT ![s] = NoFrame]
         /\ msg' = [msg EXCEPT ![s] = NoFrame]
         /\ Logged(s, kind, RequestType(s))
         /\ UNCHANGED <<conn, nsent, resp>>

\* the frame is dropped and the loop calls ws.recv() again
Discarded(s) ==
    /\ wire' = [wire EXCEPT ![s] = NoFrame]
    /\ msg' = [msg EXCEPT ![s] = wire[s]]
    /\ UNCHANGED <<cpc, conn, nsent, resp, log>>

\* 1) the first frame received is taken as Hello, whatever it is;
\* 2) Identify (op 1) is sent
obs_request_hello(s) ==
    /\ cpc[s] = "hello"
    /\ wire[s] # NoFrame
    /\ Sent(s, "identified", "identify")
    /\ UNCHANGED <<pc, event, meet_id, window_found, elapsed, out, tasks,
                   last_size, outcome, errors, store, nextId>>
    /\ UNCHANGED <<recording, timeout_sec, desktop, disk>>

\* faulty variant of IdentifiedStep: any JSON object ends the wait for op 2
IdentifiedStep_AnyObject(f) ==
    IF f.json = "invalid" THEN "continue"
    ELSE IF f.json # "object" THEN "raise"
    ELSE "break"

\* what loop 3) does with a frame: "continue", "break" or "raise"
\* (obj.get on a JSON value that is not an object raises AttributeError)
IdentifiedStep(f) ==
    IF f.json = "invalid" THEN "continue"
    ELSE IF f.json # "object" THEN "raise"
    ELSE IF f.op = 2 THEN "break"
    ELSE "continue"

\* the service gets the request (op 6) and starts or stops its one recording
Delivered(s) ==
    IF conn[s] = "closed"
    THEN UNCHANGED recording
    ELSE recording' = (RequestType(s) = "StartRecord")

\* 3) wait for Identified (op 2); 4) send the request (op 6)
obs_request_wait_identified(s) ==
    /\ cpc[s] = "identified"
    /\ wire[s] # NoFrame
    /\ LET step == IdentifiedStep(wire[s])
       IN  CASE step = "continue" -> Discarded(s) /\ UNCHANGED recording
             [] step = "raise" -> CallRaised(s) /\ UNCHANGED recording
             [] step = "break" -> Sent(s, "response", "request") /\ Delivered(s)
    /\ UNCHANGED <<pc, event, meet_id, window_found, elapsed, out, tasks,
                   last_size, outcome, errors, store, nextId>>
    /\ UNCHANGED <<timeout_sec, desktop, disk>>

\* faulty variant of ResponseStep: the requestId of the response is not compared
ResponseStep_AnyResponse(f, request_id) ==
    IF f.json = "invalid" THEN "continue"
    ELSE IF f.json # "object" THEN "raise"
    ELSE IF f.op # 7 THEN "continue"
    ELSE IF f.d = "absent" THEN "continue"
    ELSE IF f.d # "object" THEN "raise"
    ELSE "return"

\* what loop 5) does with a frame: "continue", "return" or "raise"
ResponseStep(f, request_id) ==
    IF f.json = "invalid" THEN "continue"
    ELSE IF f.json # "object" THEN "raise"
    ELSE IF f.op # 7 THEN "continue"
    ELSE IF f.d = "absent" THEN "continue"
    ELSE IF f.d # "object" THEN "raise"
    ELSE IF f.requestId = request_id THEN "return"
    ELSE "continue"

\* 5) wait for the response (op 7) with the request's id
obs_request_wait_response(s) ==
    /\ cpc[s] = "response"
    /\ wire[s] # NoFrame
    /\ LET step == ResponseStep(wire[s], RequestId(RequestType(s), event[s].id))
       IN  CASE step = "continue" -> Discarded(s)
             [] step = "raise" -> CallRaised(s)
             [] step = "return" -> CallReturned(s, wire[s])
    /\ UNCHANGED <<pc, event, meet_id, window_found, elapsed, out, tasks,
                   last_size, outcome, errors, store, nextId>>
    /\ UNCHANGED <<recording, timeout_sec, desktop, disk>>

\* ------------------------------------- start_recording_A: StartRecord done
\* faulty variant of UsesWindowStrategy: `if meet_id`
UsesWindowStrategy_IdOnly(s) == Truthy(meet_id[s])

\* `if meet_id and window_found`
UsesWindowStrategy(s) == Truthy(meet_id[s]) /\ window_found[s]

Strategy(s) == IF UsesWindowStrategy(s) THEN "window" ELSE "process"

\* faulty variant of StartFailed: the `return` after the error log is missing
StartFailed_NoReturn(s) ==
    /\ Noted(s, "start")
    /\ pc' = [pc EXCEPT ![s] = "await_end"]
    /\ cpc' = [cpc EXCEPT ![s] = "none"]
    /\ UNCHANGED <<log, outcome>>

\* the StartRecord call raised: the error is logged and the function returns
StartFailed(s) ==
    /\ Noted(s, "start")
    /\ Ended(s, "Failed")
    /\ cpc' = [cpc EXCEPT ![s] = "none"]
    /\ UNCHANGED log

\* faulty variant of StartSucceeded: StopRecord is sent without waiting for the end
StartSucceeded_NoWait(s) ==
    /\ pc' = [pc EXCEPT ![s] = "stop"]
    /\ cpc' = [cpc EXCEPT ![s] = "connect"]
    /\ UNCHANGED <<log, outcome, errors>>

\* the StartRecord call returned: the end-of-meeting wait begins
StartSucceeded(s) ==
    /\ pc' = [pc EXCEPT ![s] = "await_end"]
    /\ cpc' = [cpc EXCEPT ![s] = "none"]
    /\ Logged(s, "wait_begin", Strategy(s))
    /\ UNCHANGED <<outcome, errors>>

start_recording_A_after_start(s) ==
    /\ pc[s] = "start"
    /\ \/ cpc[s] = "raised" /\ StartFailed(s)
       \/ cpc[s] = "returned" /\ StartSucceeded(s)
    /\ UNCHANGED <<event, meet_id, window_found, elapsed, conn, wire, nsent, msg, resp,
                   out, tasks, last_size, store, nextId>>
    /\ UNCHANGED <<recording, timeout_sec, desktop, disk>>

\* ------------------------------------ start_recording_A: end-of-meeting wait
\* the wait is over: the StopRecord call is next
WaitOver(s) ==
    /\ pc' = [pc EXCEPT ![s] = "stop"]
    /\ cpc' = [cpc EXCEPT ![s] = "connect"]
    /\ Logged(s, "wait_end", Strategy(s))
    /\ titles' = [titles EXCEPT ![s] = <<>>]
    /\ running' = [running EXCEPT ![s] = TRUE]
    /\ cancelled' = [cancelled EXCEPT ![s] = FALSE]

\* one iteration of wait_for_meeting_window_close's loop: return when no title
\* of the snapshot matches, else sleep(2)
wait_for_meeting_window_close(s) ==
    /\ pc[s] = "await_end"
    /\ UsesWindowStrategy(s)
    /\ IF AnyCloseTitleMatches(meet_id[s], titles[s])
       THEN UNCHANGED <<pc, cpc, log, desktop>>
       ELSE WaitOver(s)
    /\ UNCHANGED <<recording, timeout_sec, disk>>
    /\ UNCHANGED <<event, meet_id, window_found, elapsed, conn, wire, nsent, msg, resp,
                   out, tasks, last_size, outcome, errors, store, nextId>>

\* one iteration of `while is_zoom_running(): time.sleep(5)`; is_zoom_running
\* is False too when tasklist cannot be run
start_recording_A_process_poll(s) ==
    /\ pc[s] = "await_end"
    /\ ~UsesWindowStrategy(s)
    /\ IF running[s]
       THEN UNCHANGED <<pc, cpc, log, desktop>>
       ELSE WaitOver(s)
    /\ UNCHANGED <<recording, timeout_sec, disk>>
    /\ UNCHANGED <<event, meet_id, window_found, elapsed, conn, wire, nsent, msg, resp,
                   out, tasks, last_size, outcome, errors, store, nextId>>

\* the windows on the desktop change while the session polls their titles
windows_change(s) ==
    /\ \/ pc[s] = "join" /\ Truthy(meet_id[s])
       \/ pc[s] = "await_end" /\ UsesWindowStrategy(s)
    /\ \E t \in Snapshots \ {titles[s]} : titles' = [titles EXCEPT ![s] = t]
    /\ UNCHANGED <<pc, event, meet_id, window_found, elapsed, cpc, conn, wire, nsent, msg,
                   resp, out, tasks, last_size, outcome, errors, log, store, nextId,
                   recording, timeout_sec, running, cancelled, disk>>

\* Zoom.exe exits or starts (or tasklist stops or starts working) while the
\* session polls is_zoom_running
zoom_process_changes(s) ==
    /\ pc[s] = "await_end"
    /\ ~UsesWindowStrategy(s)
    /\ running' = [running EXCEPT ![s] = ~@]
    /\ UNCHANGED <<pc, event, meet_id, window_found, elapsed, cpc, conn, wire, nsent, msg,
                   resp, out, tasks, last_size, outcome, errors, log, store, nextId,
                   recording, timeout_sec, titles, cancelled, disk>>

\* the session runs as a scheduler job, in a worker thread: the interrupt is
\* raised in the main thread, ends scheduler.start() and leaves the job as it is
InterruptedInWorkerThread(s) == UNCHANGED <<pc, titles, running>>

\* the session runs in the main thread (--id, --url): KeyboardInterrupt is
\* raised in time.sleep, no `except Exception` catches it, the process dies
InterruptedInMainThread(s) ==
    /\ pc' = [pc EXCEPT ![s] = "killed"]
    /\ titles' = [titles EXCEPT ![s] = <<>>]
    /\ running' = [running EXCEPT ![s] = TRUE]

\* the process is interrupted (Ctrl-C) while the session waits for the end of
\* the meeting; neither wait loop looks at any cancellation request
interrupt(s) ==
    /\ pc[s] = "await_end"
    /\ ~cancelled[s]
    /\ cancelled' = [cancelled EXCEPT ![s] = TRUE]
    /\ \/ InterruptedInWorkerThread(s)
       \/ InterruptedInMainThread(s)
    /\ UNCHANGED <<event, meet_id, window_found, elapsed, cpc, conn, wire, nsent, msg,
                   resp, out, tasks, last_size, outcome, errors, log, store, nextId,
                   recording, timeout_sec, disk>>

\* -------------------------------------- start_recording_A: StopRecord done
\* faulty variant of StopFailed: the error is logged and the queueing goes on
StopFailed_Continues(s) ==
    /\ Noted(s, "stop")
    /\ pc' = [pc EXCEPT ![s] = "ready"]
    /\ cpc' = [cpc EXCEPT ![s] = "none"]
    /\ UNCHANGED outcome

\* the `except` of the StopRecord block: the error is logged, the function ends
StopFailed(s) ==
    /\ Noted(s, "stop")
    /\ Ended(s, "Failed")
    /\ cpc' = [cpc EXCEPT ![s] = "none"]

\* resp.get('d', {}).get('responseData', {}).get('outputPath'); a responseData
\* that is not an object makes .get raise
OutputPathRaises(f) == f.responseData = "null"

OutputPath(f) == IF f.responseData = "object" THEN f.outputPath ELSE Absent

\* no output path: a warning, and the function ends normally
NoOutputPath(s) ==
    /\ Noted(s, "no_output")
    /\ Ended(s, "Queued")
    /\ cpc' = [cpc EXCEPT ![s] = "none"]
    /\ UNCHANGED <<elapsed, last_size, log>>

\* an output path: wait_for_file_ready(out) is called
HasOutputPath(s) ==
    /\ pc' = [pc EXCEPT ![s] = "ready"]
    /\ cpc' = [cpc EXCEPT ![s] = "none"]
    /\ elapsed' = [elapsed EXCEPT ![s] = 0]
    /\ last_size' = [last_size EXCEPT ![s] = -1]
    /\ Logged(s, "ready_begin", "")
    /\ UNCHANGED <<outcome, errors>>

\* the StopRecord call returned
StopSucceeded(s) ==
    IF OutputPathRaises(resp[s])
    THEN /\ StopFailed(s)
         /\ UNCHANGED <<out, elapsed, last_size, log>>
    ELSE /\ out' = [out EXCEPT ![s] = OutputPath(resp[s])]
         /\ IF PathTruthy(OutputPath(resp[s])) THEN HasOutputPath(s) ELSE NoOutputPath(s)

start_recording_A_after_stop(s) ==
    /\ pc[s] = "stop"
    /\ \/ /\ cpc[s] = "raised"
          /\ StopFailed(s)
          /\ UNCHANGED <<out, elapsed, last_size, log>>
       \/ /\ cpc[s] = "returned"
          /\ StopSucceeded(s)
    /\ UNCHANGED <<event, meet_id, window_found, conn, wire, nsent, msg, resp, tasks,
                   store, nextId>>
    /\ UNCHANGED <<recording, timeout_sec, desktop, disk>>

\* ------------------------------------------------- wait_for_file_ready
\* the size the loop body works with, given the sample and last_size
SampledSize(sample, last) == IF sample[1] = "unreadable" THEN last ELSE sample[2]

\* wait_for_file_ready is over: queue_audio_task is called
FileReady(s, why) ==
    /\ pc' = [pc EXCEPT ![s] = "queue_read"]
    /\ Logged(s, "ready_end", why)
    /\ errors' = [errors EXCEPT ![s] = IF why = "timeout" THEN @ \cup {"file_timeout"} ELSE @]
    /\ elapsed' = [elapsed EXCEPT ![s] = 0]
    /\ last_size' = [last_size EXCEPT ![s] = -1]
    /\ file' = [file EXCEPT ![s] = NoFile]
    /\ quiet' = [quiet EXCEPT ![s] = 0]

\* faulty variant of wait_for_file_ready: the timeout test is left out
wait_for_file_ready_NoTimeout(s) ==
    /\ pc[s] = "ready"
    /\ LET exists == file[s][1] # "absent"
           size == SampledSize(file[s], last_size[s])
       IN  IF exists /\ size = last_size[s]
           THEN FileReady(s, "stable")
           ELSE /\ last_size' = [last_size EXCEPT ![s] = IF exists THEN size ELSE @]
                /\ elapsed' = [elapsed EXCEPT ![s] = @ + 1]
                /\ quiet' = [quiet EXCEPT ![s] = IF @ < MaxQuiet THEN @ + 1 ELSE @]
                /\ UNCHANGED <<pc, log, errors, file>>
    /\ UNCHANGED <<recording, timeout_sec, desktop>>
    /\ UNCHANGED <<event, meet_id, window_found, cpc, conn, wire, nsent, msg, resp, out,
                   tasks, outcome, store, nextId>>

\* one iteration of the loop of wait_for_file_ready
wait_for_file_ready(s) ==
    /\ pc[s] = "ready"
    /\ LET exists == file[s][1] # "absent"
           size == SampledSize(file[s], last_size[s])
       IN  IF exists /\ size = last_size[s]
           THEN FileReady(s, "stable")
           ELSE IF elapsed[s] > FileTimeout
           THEN FileReady(s, "timeout")
           ELSE /\ last_size' = [last_size EXCEPT ![s] = IF exists THEN size ELSE @]
                /\ elapsed' = [elapsed EXCEPT ![s] = @ + 1]
                /\ quiet' = [quiet EXCEPT ![s] = IF @ < MaxQuiet THEN @ + 1 ELSE @]
                /\ UNCHANGED <<pc, log, errors, file>>
    /\ UNCHANGED <<recording, timeout_sec, desktop>>
    /\ UNCHANGED <<event, meet_id, window_found, cpc, conn, wire, nsent, msg, resp, out,
                   tasks, outcome, store, nextId>>

\* the recorder (or anything else) changes the output file while it is polled
file_changes(s) ==
    /\ pc[s] = "ready"
    /\ \E f \in FileSamples \ {file[s]} : file' = [file EXCEPT ![s] = f]
    /\ quiet' = [quiet EXCEPT ![s] = 0]
    /\ UNCHANGED <<pc, event, meet_id, window_found, elapsed, cpc, conn, wire, nsent, msg,
                   resp, out, tasks, last_size, outcome, errors, log, store, nextId,
                   recording, timeout_sec, desktop>>

\* ---------------------------------------------------- queue_audio_task
\* faulty variant of TasksRead: the content of the file is not used
TasksRead_AlwaysEmpty(st) == StoreList(<<>>)

\* `tasks` after the first try block: the parsed content of the file, or []
\* when there is no file or reading it raised
TasksRead(st) == IF st.kind \in {"list", "object"} THEN st ELSE StoreList(<<>>)

\* os.path.join(os.getcwd(), 'Diploma', 'Workspace', fac, cls) raises TypeError
\* when fac or cls is None
UsesMetadataFolder(md) == MdTruthy(md) /\ md.kind = "dict"

DestFolderRaises(md) ==
    UsesMetadataFolder(md) /\ (md.faculty = NoneVal \/ md.classText = NoneVal)

\* destFolder
DestFolder(file_path, md) ==
    IF UsesMetadataFolder(md)
    THEN Cwd \o <<"Diploma", "Workspace", md.faculty, md.classText>>
    ELSE file_path.dir

\* the task dict
NewTask(id, file_path, md) ==
    [id |-> id, url |-> file_path, fileNameWithoutExt |-> file_path.base,
     extension |-> file_path.ext, destFolder |-> DestFolder(file_path, md),
     hasMetadata |-> MdTruthy(md), metadata |-> IF MdTruthy(md) THEN md ELSE MdNone]

\* an exception leaves queue_audio_task and reaches the `except` of the
\* StopRecord block of start_recording_A
QueueRaised(s) ==
    /\ Noted(s, "stop")
    /\ Ended(s, "Failed")
    /\ UNCHANGED <<tasks, nextId>>

\* faulty variant of queue_audio_task_read: the file is locked from the read
\* to the write
queue_audio_task_read_Locked(s) ==
    /\ pc[s] = "queue_read"
    /\ \A o \in Sessions \ {s} : pc[o] # "queue_write"
    /\ LET read == TasksRead(store)
           md == event[s].metadata
       IN  IF DestFolderRaises(md) \/ read.kind # "list"
           THEN QueueRaised(s)
           ELSE /\ tasks' = [tasks EXCEPT ![s] =
                       StoreList(Append(read.items, NewTask(nextId, out[s].val, md)))]
                /\ nextId' = nextId + 1
                /\ pc' = [pc EXCEPT ![s] = "queue_write"]
                /\ UNCHANGED <<outcome, errors>>
    /\ UNCHANGED <<event, meet_id, window_found, elapsed, cpc, conn, wire, nsent,
                   msg, resp, out, last_size, log, store>>
    /\ UNCHANGED <<recording, timeout_sec, desktop, disk>>

\* the file is read, the task is built and appended to the list in memory
queue_audio_task_read(s) ==
    /\ pc[s] = "queue_read"
    /\ LET read == TasksRead(store)
           md == event[s].metadata
       IN  IF DestFolderRaises(md) \/ read.kind # "list"
           THEN QueueRaised(s)
           ELSE /\ tasks' = [tasks EXCEPT ![s] =
                       StoreList(Append(read.items, NewTask(nextId, out[s].val, md)))]
                /\ nextId' = nextId + 1
                /\ pc' = [pc EXCEPT ![s] = "queue_write"]
                /\ UNCHANGED <<outcome, errors>>
    /\ UNCHANGED <<event, meet_id, window_found, elapsed, cpc, conn, wire, nsent,
                   msg, resp, out, last_size, log, store>>
    /\ UNCHANGED <<recording, timeout_sec, desktop, disk>>

\* the list is written back; a failure to open the file leaves it as it was,
\* a failure while dumping leaves a truncated file; either is logged
\* the file now holds the list with the new task
WriteSucceeded(s) ==
    /\ store' = tasks[s]
    /\ Logged(s, "append", "")
    /\ Ended(s, "Queued")
    /\ UNCHANGED errors

\* faulty variant of WriteFailed: the write error is not caught in queue_audio_task
WriteFailed_Raises(s) ==
    /\ store' \in {store, StoreCorrupt}
    /\ Logged(s, "write_failed", "")
    /\ Noted(s, "stop")
    /\ Ended(s, "Failed")

\* open(..., 'w') or json.dump raised: the error is logged, the function returns
WriteFailed(s) ==
    /\ store' \in {store, StoreCorrupt}
    /\ Logged(s, "write_failed", "")
    /\ Noted(s, "queue")
    /\ Ended(s, "Queued")

queue_audio_task_write(s) ==
    /\ pc[s] = "queue_write"
    /\ \/ WriteSucceeded(s)
       \/ WriteFailed(s)
    /\ UNCHANGED <<event, meet_id, window_found, elapsed, cpc, conn, wire, nsent,
                   msg, resp, out, tasks, last_size, nextId>>
    /\ UNCHANGED <<recording, timeout_sec, desktop, disk>>

\* ------------------------------------------------------- specification
SessionStep(s) ==
    \/ start_recording_A_launch(s)
    \/ start_recording_A_no_id(s)
    \/ wait_for_meeting_window(s)
    \/ wait_for_meeting_window_timeout(s)
    \/ obs_request_connect(s)
    \/ obs_request_recv_closed(s)
    \/ obs_request_hello(s)
    \/ obs_request_wait_identified(s)
    \/ obs_request_wait_response(s)
    \/ start_recording_A_after_start(s)
    \/ wait_for_meeting_window_close(s)
    \/ start_recording_A_process_poll(s)
    \/ start_recording_A_after_stop(s)
    \/ wait_for_file_ready(s)
    \/ queue_audio_task_read(s)
    \/ queue_audio_task_write(s)

ServiceStep(s) == service_send(s) \/ service_close(s)

\* what the machine around the session does
EnvStep(s) ==
    \/ windows_change(s)
    \/ zoom_process_changes(s)
    \/ interrupt(s)
    \/ file_changes(s)

Next == \E s \in Sessions : SessionStep(s) \/ ServiceStep(s) \/ EnvStep(s)

Spec == Init /\ [][Next]_vars

\* the code's scheduling: a session that can take a step takes it; the
\* recording service is under no obligation to send or to close
FairSpec == Spec /\ \A s \in Sessions : WF_vars(SessionStep(s))

\* wait_for_meeting_window called with any small timeout_sec, on an empty queue
WindowInit ==
    /\ timeout_sec \in [Sessions -> 0..MaxTimeout]
    /\ timeout_sec["s2"] = 0
    /\ InitSession({"s1"})
    /\ event["s1"].metadata = MdNone
    /\ store = StoreList(<<>>)

WindowSpec == WindowInit /\ [][Next]_vars

\* the log of a session that has reached queue_audio_task without a meeting id
QueueingLog ==
    << <<"launch", "ok">>, <<"join", "no_id">>,
       <<"connect", "StartRecord">>, <<"identify", "StartRecord">>,
       <<"request", "StartRecord">>, <<"response", "StartRecord">>,
       <<"close", "StartRecord">>,
       <<"wait_begin", "process">>, <<"wait_end", "process">>,
       <<"connect", "StopRecord">>, <<"identify", "StopRecord">>,
       <<"request", "StopRecord">>, <<"response", "StopRecord">>,
       <<"close", "StopRecord">>,
       <<"ready_begin", "">>, <<"ready_end", "stable">> >>

\* every session is about to call queue_audio_task(out, event.get('metadata'))
QueueInit ==
    /\ pc = [s \in Sessions |-> "queue_read"]
    /\ event \in [Sessions -> [id : Sessions, parts : {UrlNoId}, metadata : MdPool]]
    /\ \A s \in Sessions : event[s].id = s
    /\ meet_id = [s \in Sessions |-> <<>>]
    /\ window_found = [s \in Sessions |-> FALSE]
    /\ elapsed = [s \in Sessions |-> 0]
    /\ cpc = [s \in Sessions |-> "none"]
    /\ conn = [s \in Sessions |-> "none"]
    /\ wire = [s \in Sessions |-> NoFrame]
    /\ nsent = [s \in Sessions |-> 0]
    /\ msg = [s \in Sessions |-> NoFrame]
    /\ resp = [s \in Sessions |-> Resp(RequestId("StopRecord", s), "object", Some(PathA))]
    /\ out = [s \in Sessions |-> Some(PathA)]
    /\ tasks = [s \in Sessions |-> StoreList(<<>>)]
    /\ last_size = [s \in Sessions |-> -1]
    /\ outcome = [s \in Sessions |-> "none"]
    /\ errors = [s \in Sessions |-> {"no_id"}]
    /\ log = [s \in Sessions |-> QueueingLog]
    /\ store \in StorePool
    /\ nextId = 1
    /\ timeout_sec = [s \in Sessions |-> JoinTimeout]
    /\ titles = [s \in Sessions |-> <<>>]
    /\ running = [s \in Sessions |-> TRUE]
    /\ cancelled = [s \in Sessions |-> FALSE]
    /\ file = [s \in Sessions |-> NoFile]
    /\ quiet = [s \in Sessions |-> 0]
    /\ recording = FALSE

\* the calls of queue_audio_task run in any interleaving
QueueNext ==
    \E s \in Sessions : queue_audio_task_read(s) \/ queue_audio_task_write(s)

QueueSpec == QueueInit /\ [][QueueNext]_vars

\* a call of queue_audio_task begins when no other call is under way
queue_audio_task_alone(s) ==
    /\ \A o \in Sessions \ {s} : pc[o] # "queue_write"
    /\ queue_audio_task_read(s)

\* the calls of queue_audio_task run one at a time
QueueSerialNext ==
    \E s \in Sessions : queue_audio_task_alone(s) \/ queue_audio_task_write(s)

QueueSerialSpec == QueueInit /\ [][QueueSerialNext]_vars

\* the frame a working recording service sends next on the connection
Reply(s) ==
    CASE cpc[s] = "hello" -> Hello
      [] cpc[s] = "identified" -> Identified
      [] cpc[s] = "response" /\ pc[s] = "start" ->
            Resp(RequestId("StartRecord", event[s].id), "absent", Absent)
      [] OTHER -> Resp(RequestId("StopRecord", event[s].id), "object", Some(PathA))

\* service_send by a recording service that works
service_replies(s) ==
    /\ conn[s] = "open"
    /\ wire[s] = NoFrame
    /\ nsent[s] < MaxFrames
    /\ Reply(s) \in FramePool(event[s].id)
    /\ wire' = [wire EXCEPT ![s] = Reply(s)]
    /\ nsent' = [nsent EXCEPT ![s] = @ + 1]
    /\ UNCHANGED <<pc, event, meet_id, window_found, elapsed, cpc, conn, msg, resp, out,
                   tasks, last_size, outcome, errors, log, store, nextId>>
    /\ UNCHANGED <<recording, timeout_sec, desktop, disk>>

\* how join detection may have ended: no meeting id, window found, timeout
JoinEnds ==
    { [parts |-> UrlNoId, found |-> FALSE, why |-> "no_id"],
      [parts |-> UrlWithId, found |-> TRUE, why |-> "found"],
      [parts |-> UrlWithId, found |-> FALSE, why |-> "timeout"] }

\* every session is about to make its StartRecord call
OverlapInit ==
    /\ \E j \in [Sessions -> JoinEnds] :
          /\ event = [s \in Sessions |->
                         [id |-> s, parts |-> j[s].parts, metadata |-> MdNone]]
          /\ meet_id = [s \in Sessions |-> ExtractMeetId(j[s].parts)]
          /\ window_found = [s \in Sessions |-> j[s].found]
          /\ errors = [s \in Sessions |-> IF j[s].found THEN {} ELSE {j[s].why}]
          /\ log = [s \in Sessions |-> << <<"launch", "ok">>, <<"join", j[s].why>> >>]
    /\ pc = [s \in Sessions |-> "start"]
    /\ cpc = [s \in Sessions |-> "connect"]
    /\ elapsed = [s \in Sessions |-> 0]
    /\ conn = [s \in Sessions |-> "none"]
    /\ wire = [s \in Sessions |-> NoFrame]
    /\ nsent = [s \in Sessions |-> 0]
    /\ msg = [s \in Sessions |-> NoFrame]
    /\ resp = [s \in Sessions |-> NoFrame]
    /\ out = [s \in Sessions |-> Absent]
    /\ tasks = [s \in Sessions |-> StoreList(<<>>)]
    /\ last_size = [s \in Sessions |-> -1]
    /\ outcome = [s \in Sessions |-> "none"]
    /\ store = StoreList(<<>>)
    /\ nextId = 1
    /\ timeout_sec = [s \in Sessions |-> JoinTimeout]
    /\ titles = [s \in Sessions |-> <<>>]
    /\ running = [s \in Sessions |-> TRUE]
    /\ cancelled = [s \in Sessions |-> FALSE]
    /\ file = [s \in Sessions |-> NoFile]
    /\ quiet = [s \in Sessions |-> 0]
    /\ recording = FALSE

\* the sessions make their control calls and wait for the end of their
\* meetings, in any interleaving, against a recording service that works
OverlapNext ==
    \E s \in Sessions :
        \/ obs_request_connect(s)
        \/ obs_request_hello(s)
        \/ obs_request_wait_identified(s)
        \/ obs_request_wait_response(s)
        \/ service_replies(s)
        \/ start_recording_A_after_start(s)
        \/ wait_for_meeting_window_close(s)
        \/ windows_change(s)
        \/ start_recording_A_process_poll(s)
        \/ zoom_process_changes(s)
        \/ start_recording_A_after_stop(s)

OverlapSpec == OverlapInit /\ [][OverlapNext]_vars

\* ------------------------------------------------------------ properties
InLog(s, e) == \E i \in 1..Len(log[s]) : log[s][i] = e

KindInLog(s, kind) == \E i \in 1..Len(log[s]) : log[s][i][1] = kind

Count(s, e) == Cardinality({i \in 1..Len(log[s]) : log[s][i] = e})

\* the id _obs_request was given for the call the session is in
ExpectedId(s) == RequestId(RequestType(s), event[s].id)

\* the place of an event in the order of one session
Rank(e) ==
    CASE e = <<"request", "StartRecord">> -> 1
      [] e = <<"response", "StartRecord">> -> 2
      [] e[1] = "wait_begin" -> 3
      [] e[1] = "wait_end" -> 4
      [] e = <<"request", "StopRecord">> -> 5
      [] e = <<"response", "StopRecord">> -> 6
      [] e = <<"append", "">> -> 7
      [] OTHER -> 0

\* C1: within one session the StartRecord request, its response, the begin and
\* the end of the end-of-meeting wait, the StopRecord request, its response and
\* the append happen only in this order: each event comes after every earlier
\* ordered event and only after the event before it in the order has happened.
C1_SessionOrder ==
    \A s \in Sessions : \A j \in 1..Len(log[s]) :
        LET r == Rank(log[s][j])
        IN  r > 0 =>
              /\ \A i \in 1..(j - 1) : Rank(log[s][i]) < r
              /\ r > 1 => \E i \in 1..(j - 1) : Rank(log[s][i]) = r - 1

C1_Witness == \E s \in Sessions : InLog(s, <<"append", "">>)

\* C2: once the StartRecord call has raised, the session makes no
\* end-of-meeting wait, opens no StopRecord call and appends nothing; its next
\* and last step is to end as Failed.
C2_StartFailureEnds ==
    \A s \in Sessions :
        InLog(s, <<"error", "StartRecord">>) =>
          /\ ~KindInLog(s, "wait_begin") /\ ~KindInLog(s, "wait_end")
          /\ ~InLog(s, <<"connect", "StopRecord">>)
          /\ ~InLog(s, <<"request", "StopRecord">>)
          /\ ~KindInLog(s, "append") /\ ~KindInLog(s, "write_failed")
          /\ \/ pc[s] = "start" /\ cpc[s] = "raised"
             \/ pc[s] = "done" /\ outcome[s] = "Failed"

C2_Witness ==
    \E s \in Sessions : InLog(s, <<"error", "StartRecord">>) /\ pc[s] = "done"

\* C3: once the StopRecord call has raised, the session never waits for the
\* file and never reads or writes the task queue; its next and last step is to
\* end as Failed.
C3_StopFailureEnds ==
    \A s \in Sessions :
        InLog(s, <<"error", "StopRecord">>) =>
          /\ ~KindInLog(s, "ready_begin") /\ ~KindInLog(s, "ready_end")
          /\ ~KindInLog(s, "append") /\ ~KindInLog(s, "write_failed")
          /\ tasks[s] = StoreList(<<>>)
          /\ \/ pc[s] = "stop" /\ cpc[s] = "raised"
             \/ pc[s] = "done" /\ outcome[s] = "Failed"

C3_Witness ==
    \E s \in Sessions : InLog(s, <<"error", "StopRecord">>) /\ pc[s] = "done"

\* a Response frame (op 7 with an object d) whose requestId is not the call's
IsMismatch(s, f) ==
    f.json = "object" /\ f.op = 7 /\ f.d = "object" /\ f.requestId # ExpectedId(s)

C4_ReturnedMatches ==
    \A s \in Sessions :
        cpc[s] = "returned" =>
          resp[s].json = "object" /\ resp[s].op = 7 /\ resp[s].requestId = ExpectedId(s)

C4_MismatchStep ==
    \A s \in Sessions :
        (cpc[s] = "response" /\ IsMismatch(s, wire[s]) /\ wire'[s] # wire[s]) =>
          cpc'[s] = "response" /\ msg'[s] = wire[s] /\ resp'[s] = resp[s]

\* C4: what _obs_request returns is an op 7 frame carrying the id of the
\* request, and receiving a Response frame with another id leaves the call
\* waiting: the frame is dropped, nothing is returned, nothing is raised.
C4_OnlyMatchingResponse == []C4_ReturnedMatches /\ [][C4_MismatchStep]_vars

C4_Witness == \E s \in Sessions : cpc[s] = "response" /\ IsMismatch(s, msg[s])

\* what the log says of the wait that was used, against the result of join
\* detection
C5_StrategyInLog ==
    \A s \in Sessions : \A j \in 1..Len(log[s]) :
        log[s][j][1] \in {"wait_begin", "wait_end"} =>
          /\ log[s][j][2] = "window" <=>
               \E i \in 1..(j - 1) : log[s][i] = <<"join", "found">>
          /\ log[s][j][2] = "process" <=>
               \E i \in 1..(j - 1) :
                  log[s][i] \in {<<"join", "timeout">>, <<"join", "no_id">>}
          /\ InLog(s, <<"join", "no_id">>) <=> ~Truthy(ExtractMeetId(event[s].parts))
          /\ \E i \in 1..(j - 1) : log[s][i] = <<"request", "StartRecord">>

\* wait_for_meeting_window returns True only while the 60 seconds are running
C5_FoundInTime ==
    \A s \in Sessions :
        (pc[s] = "join" /\ window_found'[s]) => elapsed[s] < JoinTimeout

\* C5: the end-of-meeting wait is the window-close wait exactly when
\* wait_for_meeting_window returned True (which it does only within its 60
\* seconds), and the process-liveness poll exactly when it returned False or
\* no meeting id was extracted; the StartRecord request is sent before either
\* wait begins.
C5_StrategyFollowsJoin == []C5_StrategyInLog /\ [][C5_FoundInTime]_vars

C5_Witness ==
    \E s \in Sessions :
        InLog(s, <<"join", "timeout">>) /\ InLog(s, <<"wait_end", "process">>)

\* the StopRecord call returned a response that carries a non-empty outputPath
StopOkWithPath(s) ==
    /\ InLog(s, <<"response", "StopRecord">>)
    /\ resp[s].responseData = "object"
    /\ resp[s].outputPath.has
    /\ resp[s].outputPath.val # EmptyPath

\* C6 as stated: a finished session has added exactly one task when StopRecord
\* succeeded with an output path, and none otherwise.
C6_ExactlyOnePerOutputPath ==
    \A s \in Sessions :
        pc[s] = "done" =>
          Count(s, <<"append", "">>) = (IF StopOkWithPath(s) THEN 1 ELSE 0)

\* C6 (amended): a session adds at most one task, and adds one only when
\* StopRecord succeeded with a response carrying an output path.
C6_AtMostOneAndOnlyWithPath ==
    \A s \in Sessions :
        /\ Count(s, <<"append", "">>) <= 1
        /\ Count(s, <<"append", "">>) = 1 => StopOkWithPath(s)

C6_Witness ==
    \E s \in Sessions : pc[s] = "done" /\ Count(s, <<"append", "">>) = 1

\* C7: a finished session whose StopRecord call returned a response without an
\* output path has made no file wait and no append and has ended as Queued.
C7_NoPathStillQueued ==
    \A s \in Sessions :
        (pc[s] = "done" /\ InLog(s, <<"response", "StopRecord">>) /\ ~StopOkWithPath(s)) =>
          /\ outcome[s] = "Queued"
          /\ ~KindInLog(s, "ready_begin")
          /\ ~KindInLog(s, "append") /\ ~KindInLog(s, "write_failed")

C9_WriteFailureStillQueued ==
    \A s \in Sessions :
        InLog(s, <<"write_failed", "">>) =>
          /\ pc[s] = "done" /\ outcome[s] = "Queued"
          /\ "queue" \in errors[s] /\ "stop" \notin errors[s]
          /\ Count(s, <<"write_failed", "">>) + Count(s, <<"append", "">>) = 1

C9_Witness == \E s \in Sessions : InLog(s, <<"write_failed", "">>)

\* C10: a call that is in its handshake (connecting, waiting for the first
\* frame or waiting for op 2) always leaves it: it gets to send its request or
\* it raises.
C10_HandshakeEnds ==
    \A s \in Sessions :
        (cpc[s] \in {"connect", "hello", "identified"})
          ~> (cpc[s] \in {"response", "returned", "raised"})

\* ------------------------------------------------------------------ C11
\* a frame that is not the one the wait point of _obs_request waits for:
\* not JSON, JSON that is not an object, another op, or an op 7 without
\* an object as d
Unexpected(s, f) ==
    \/ f.json # "object"
    \/ cpc[s] = "identified" /\ f.op # 2
    \/ cpc[s] = "response" /\ (f.op # 7 \/ f.d # "object")

C11_DiscardStep ==
    \A s \in Sessions :
        (/\ cpc[s] \in {"identified", "response"}
         /\ wire[s] # NoFrame
         /\ wire'[s] = NoFrame
         /\ Unexpected(s, wire[s]))
        => /\ cpc'[s] = cpc[s]
           /\ msg'[s] = wire[s]
           /\ log'[s] = log[s]

\* C11: at both wait points of _obs_request (for Identified and for the
\* response) every unknown or malformed frame - not valid JSON, valid JSON
\* that is not an object, an unexpected op - is dropped without ending the
\* call and without raising: the call stays at the same wait point.
C11_MalformedDiscarded == [][C11_DiscardStep]_vars

\* ------------------------------------------------------------------ C12
\* C12: the end-of-meeting wait can be cancelled on both paths: once an
\* interrupt has reached the process while the session waits (for the window
\* to close, or for the Zoom process to exit), the session leaves the wait,
\* even if the window never closes and the process never exits.
C12_CancelUnblocksWait ==
    \A s \in Sessions : (pc[s] = "await_end" /\ cancelled[s]) ~> (pc[s] # "await_end")

\* ------------------------------------------------------------------ C13
\* some title of the snapshot contains the meeting id
SomeTitleContains(id, snapshot) ==
    \E i \in 1..Len(snapshot) : Contains(snapshot[i], id)

\* the session takes a step of wait_for_meeting_window
JoinPollStep(s) ==
    /\ pc[s] = "join"
    /\ Truthy(meet_id[s])
    /\ pc'[s] # pc[s] \/ elapsed'[s] # elapsed[s]

C13_AnyTimeoutStep ==
    \A s \in Sessions :
        (JoinPollStep(s) /\ SomeTitleContains(meet_id[s], titles[s]))
        => (window_found'[s] /\ pc'[s] = "start")

\* C13: for every meeting id, every timeout and every list of window titles
\* in which some title contains the meeting id, wait_for_meeting_window
\* returns True, at the first poll and not after the timeout.
C13_FoundWhenTitleContainsId == [][C13_AnyTimeoutStep]_vars

C13_PositiveTimeoutStep ==
    \A s \in Sessions :
        (/\ JoinPollStep(s)
         /\ SomeTitleContains(meet_id[s], titles[s])
         /\ timeout_sec[s] > 0
         /\ elapsed[s] < timeout_sec[s])
        => /\ window_found'[s]
           /\ pc'[s] = "start"
           /\ elapsed'[s] = 0
           /\ log'[s] = Append(log[s], <<"join", "found">>)

\* C13 (amended): with a timeout greater than zero the function polls at
\* least once, at call time; at every poll it makes, if some title contains
\* the (non-empty) meeting id it returns True at that very poll.  With a
\* timeout of zero it returns False without polling.
C13_FoundAtFirstPoll ==
    /\ [][C13_PositiveTimeoutStep]_vars
    /\ [](\A s \in Sessions :
            (pc[s] = "join" /\ Truthy(meet_id[s]) /\ timeout_sec[s] > 0 /\ elapsed[s] = 0)
            => ENABLED wait_for_meeting_window(s))

C13_Witness ==
    /\ pc["s1"] = "start"
    /\ window_found["s1"]
    /\ timeout_sec["s1"] = 1
    /\ InLog("s1", <<"join", "found">>)

\* ------------------------------------------------------------------ C14
\* the two waits agree on the titles the session meets (every snapshot is
\* met, during join detection and during the wait for the window to close)
C14_SamePredicate ==
    \A s \in Sessions :
        AnyCloseTitleMatches(meet_id[s], titles[s]) = AnyTitleMatches(meet_id[s], titles[s])

\* wait_for_meeting_window_close returns at this step
CloseReturns(s) ==
    /\ pc[s] = "await_end"
    /\ UsesWindowStrategy(s)
    /\ pc'[s] = "stop"

C14_ReturnStep ==
    \A s \in Sessions :
        CloseReturns(s) => ~AnyTitleMatches(meet_id[s], titles[s])

\* the close wait stays while the title test of the join wait finds a window
C14_StayStep ==
    \A s \in Sessions :
        (/\ pc[s] = "await_end"
         /\ UsesWindowStrategy(s)
         /\ AnyTitleMatches(meet_id[s], titles[s])
         /\ titles'[s] = titles[s])
        => pc'[s] \in {"await_end", "killed"}

\* C14: wait_for_meeting_window_close applies the same title test as
\* wait_for_meeting_window (the title contains the meeting id, or it matches
\* the generic in-meeting pattern): it returns only at a poll where no
\* visible title passes that test, and on every list of titles the two
\* functions agree on whether a meeting window is present.
C14_CloseAgreesWithOpen ==
    /\ []C14_SamePredicate
    /\ [][C14_ReturnStep /\ C14_StayStep]_vars

C14_Witness ==
    \E s \in Sessions :
        /\ pc[s] = "stop"
        /\ window_found[s]
        /\ InLog(s, <<"wait_end", "window">>)

\* ------------------------------------------------------------------ C15
\* wait_for_file_ready returns at this step because it found the size stable
StableReturn(s) ==
    /\ pc[s] = "ready"
    /\ pc'[s] = "queue_read"
    /\ log'[s] = Append(log[s], <<"ready_end", "stable">>)

C15_EarlyReturnStep ==
    \A s \in Sessions :
        StableReturn(s) =>
            /\ file[s][1] = "size"
            /\ last_size[s] = file[s][2]

\* C15: wait_for_file_ready returns before its timeout only when the poll
\* measured the size of the file and the measurement before it gave the same
\* size; a poll at which the file does not exist, or at which its size cannot
\* be read, counts as unknown and never produces an early return.
C15_StableOnlyWhenMeasuredTwice == [][C15_EarlyReturnStep]_vars

\* ------------------------------------------------------------------ C16
\* `elapsed` is the time since the call, in poll intervals; a change of the
\* file falls between two polls, so only the first poll after it lies
\* within one poll interval of it: `quiet` counts the polls since the change
C16_InTime ==
    \A s \in Sessions :
        pc[s] = "ready" =>
            /\ elapsed[s] <= FileTimeout
            /\ file[s][1] = "size" => quiet[s] = 0

\* C16: wait_for_file_ready always returns, and never later than the timeout
\* after it was called, whatever the file does; for a file whose size stops
\* changing it returns within one poll interval of the size becoming
\* constant.
C16_ReturnsByTimeout == []C16_InTime

C16_Bounded ==
    \A s \in Sessions :
        pc[s] = "ready" =>
            /\ elapsed[s] <= FileTimeout + 1
            /\ file[s][1] = "size" => quiet[s] <= 1
            /\ ENABLED wait_for_file_ready(s)

\* a step of wait_for_file_ready returns or lets one more poll interval pass
C16_PollStep ==
    \A s \in Sessions :
        (/\ pc[s] = "ready"
         /\ file'[s] = file[s]
         /\ <<pc[s], elapsed[s], last_size[s], quiet[s]>>'
                # <<pc[s], elapsed[s], last_size[s], quiet[s]>>)
        => \/ pc'[s] = "queue_read"
           \/ pc'[s] = "ready" /\ elapsed'[s] = elapsed[s] + 1

\* C16 (amended): wait_for_file_ready never blocks and returns at the latest
\* at the first poll made after the timeout has passed, that is no later
\* than one poll interval after the timeout; for a file whose size stops
\* changing it returns at the latest at the second poll after the size
\* became constant, that is within two poll intervals.
C16_ReturnsWithinOnePollOfTimeout == []C16_Bounded /\ [][C16_PollStep]_vars

C16_Witness ==
    \E s \in Sessions :
        /\ pc[s] = "queue_read"
        /\ log[s][Len(log[s])] = <<"ready_end", "timeout">>

\* ------------------------------------------------------------------ C17
\* the backing file is missing or cannot be used as a task list
Unusable(st) == st.kind # "list"

\* the call of queue_audio_task by s ends at this step
AppendEnds(s) == pc[s] \in {"queue_read", "queue_write"} /\ pc'[s] = "done"

C17_ReadStep ==
    \A s \in Sessions :
        (pc[s] = "queue_read" /\ pc'[s] # pc[s] /\ Unusable(store))
        => /\ pc'[s] = "queue_write"
           /\ Len(tasks'[s].items) = 1
           /\ errors'[s] = errors[s]

C17_WriteStep ==
    \A s \in Sessions :
        (pc[s] = "queue_write" /\ pc'[s] = "done" /\ Len(tasks[s].items) = 1)
        => /\ store' = tasks[s]
           /\ outcome'[s] = "Queued"

\* C17: an append that finds the backing file missing, or with a content that
\* cannot be used as a task list, treats it as an empty list: in every such
\* case the append completes without raising and leaves a store that holds
\* exactly the one new task.
C17_UnusableStoreIsEmptyList == [][C17_ReadStep /\ C17_WriteStep]_vars

\* ------------------------------------------------------------------ C18
\* a is a prefix of b
IsPrefix(a, b) == Len(a) <= Len(b) /\ SubSeq(b, 1, Len(a)) = a

\* the task list an append finds in the backing file
Entries(st) == IF st.kind = "list" THEN st.items ELSE <<>>

\* the append of s got as far as writing the file and ends at this step
WriteEnds(s) == pc[s] = "queue_write" /\ pc'[s] = "done"

C18_EveryWriteStep ==
    /\ IsPrefix(Entries(store), Entries(store'))
    /\ \A s \in Sessions :
          WriteEnds(s) => Len(Entries(store')) = Len(Entries(store)) + 1

\* C18: when appends run one at a time the store only grows: the list of
\* entries before an append is an unchanged prefix of the list after it, so
\* n appends to an empty store leave exactly n entries in append order and
\* no earlier entry is ever removed or altered.
C18_StoreOnlyGrows == [][C18_EveryWriteStep]_vars

\* the write of s succeeded at this step
WriteSucceeds(s) == WriteEnds(s) /\ log'[s] = Append(log[s], <<"append", "">>)

C18_SuccessfulWriteStep ==
    \A s \in Sessions :
        /\ WriteSucceeds(s) =>
              /\ store'.kind = "list"
              /\ IsPrefix(Entries(store), store'.items)
              /\ Len(store'.items) = Len(Entries(store)) + 1
              /\ store'.items[Len(store'.items)] = tasks[s].items[Len(tasks[s].items)]
              /\ \A i \in 1..Len(Entries(store)) :
                    store.items[i].id # store'.items[Len(store'.items)].id
        /\ (WriteEnds(s) /\ ~WriteSucceeds(s)) => store' \in {store, StoreCorrupt}
        /\ (pc[s] = "queue_read" /\ pc'[s] # pc[s]) => store' = store

\* C18 (amended): when appends run one at a time, an append whose write
\* succeeds leaves the list it found as an unchanged prefix of the stored
\* list and adds exactly one entry, with a new id, at its end; so n appends
\* that all succeed on an empty store leave exactly n entries in append
\* order.  An append that fails adds nothing: it leaves the file as it was
\* or, when the write broke off, unparsable.
C18_SuccessfulAppendsGrow == [][C18_SuccessfulWriteStep]_vars

C18_Witness ==
    /\ \A s \in Sessions : pc[s] = "done" /\ InLog(s, <<"append", "">>)
    /\ store.kind = "list"
    /\ Len(store.items) = 3
    /\ store.items[1] = OldTask

\* ------------------------------------------------------------------ C19
\* the metadata supplies both the organizational unit and the group
SuppliesBoth(md) ==
    md.kind = "dict" /\ md.faculty # NoneVal /\ md.classText # NoneVal

\* the destination folder the claim names
ClaimedDestFolder(file_path, md) ==
    IF SuppliesBoth(md)
    THEN Cwd \o <<"Diploma", "Workspace", md.faculty, md.classText>>
    ELSE file_path.dir

C19_ReadStep ==
    \A s \in Sessions :
        (pc[s] = "queue_read" /\ pc'[s] # pc[s] /\ TasksRead(store).kind = "list")
        => /\ pc'[s] = "queue_write"
           /\ tasks'[s].items[Len(tasks'[s].items)].destFolder
                 = ClaimedDestFolder(out[s].val, event[s].metadata)

\* C19: the destination folder of an appended task is
\* <cwd>/Diploma/Workspace/<faculty>/<classText> when the metadata supplies
\* both, and in every other case (no metadata, empty metadata, only one of
\* the two) the directory of the source file; the append succeeds in all of
\* these cases.
C19_DestFolder == [][C19_ReadStep]_vars

\* ------------------------------------------------------------------ C20
\* the task the append of s built
BuiltBy(s) == tasks[s].items[Len(tasks[s].items)]

InStore(t) == store.kind = "list" /\ \E i \in 1..Len(store.items) : store.items[i] = t

\* the append of s ran to its end without any error
AppendedCleanly(s) ==
    /\ pc[s] = "done"
    /\ outcome[s] = "Queued"
    /\ InLog(s, <<"append", "">>)
    /\ errors[s] = {"no_id"}

\* no append waits for another one
C20_NeverHeldBack ==
    \A s \in Sessions : pc[s] = "queue_read" => ENABLED queue_audio_task_read(s)

\* a successful write stores the writer's list, whatever the file holds by then
C20_LastWriterStep ==
    \A s \in Sessions : WriteSucceeds(s) => store' = tasks[s]

\* C20: the append is a read-modify-write that is not atomic and is under no
\* mutual exclusion: a session reads the file while another session is
\* between its read and its write, and each write replaces the file with
\* the writer's own list; so with two sessions appending concurrently an
\* interleaving is reachable (C20_Witness) in which both appends complete
\* without error and the store holds only one of the two tasks.
C20_NoMutualExclusion == []C20_NeverHeldBack /\ [][C20_LastWriterStep]_vars

C20_Witness ==
    /\ \A s \in Sessions : AppendedCleanly(s)
    /\ \E s, o \in Sessions : InStore(BuiltBy(s)) /\ ~InStore(BuiltBy(o))

\* ------------------------------------------------------------------ C21
\* the StopRecord request of s has reached the service
StopDelivered(s) == InLog(s, <<"request", "StopRecord">>)

\* no call waits for another session
C21_NeverHeldBack ==
    \A s \in Sessions :
        (pc[s] \in {"start", "stop"} /\ cpc[s] = "connect")
        => ENABLED obs_request_connect(s)

\* while a session waits for the end of its meeting the capture runs, unless
\* the StopRecord of another session has reached the service
C21_StoppedOnlyByAnother ==
    \A o \in Sessions :
        (pc[o] = "await_end" /\ ~recording)
        => \E s \in Sessions \ {o} : StopDelivered(s)

\* a StopRecord request stops the capture, whoever else is still waiting
C21_StopStep ==
    \A s \in Sessions :
        (~StopDelivered(s) /\ StopDelivered(s)') => ~recording'

\* C21: access to the recording service is not serialized across sessions:
\* no call waits for another session, and a StopRecord stops the service's
\* one recording; so with two overlapping sessions a state is reachable
\* (C21_Witness) in which the StopRecord of one session has reached the
\* service while the other session still waits for the end of its meeting,
\* whose capture has thereby stopped.
C21_NotSerialized ==
    /\ [](C21_NeverHeldBack /\ C21_StoppedOnlyByAnother)
    /\ [][C21_StopStep]_vars

C21_Witness ==
    \E s, o \in Sessions :
        /\ s # o
        /\ StopDelivered(s)
        /\ pc[o] = "await_end"
        /\ ~recording


\* ------------------------------------------------------------------ C22
RequestTypes == {"StartRecord", "StopRecord"}

\* what the call of type T of session s did, in order
CallTrace(s, T) ==
    LET own(e) == e[2] = T /\ e[1] \in {"connect", "identify", "request",
                                         "response", "error", "close"}
        tr == SelectSeq(log[s], own)
    IN  [i \in 1..Len(tr) |-> tr[i][1]]

\* a call on its open connection, before it ends
OpenTraces ==
    { <<"connect">>, <<"connect", "identify">>, <<"connect", "identify", "request">> }

\* a call that raised on its connection, which was then closed
FailedTraces == { t \o <<"error", "close">> : t \in OpenTraces }

\* a call that returned, and its connection was closed
ReturnedTrace == <<"connect", "identify", "request", "response", "close">>

\* no connection could be opened
RefusedTrace == <<"error">>

\* the call of type T of session s has ended
CallEnded(s, T) ==
    \E i \in 1..Len(log[s]) : log[s][i] \in {<<"error", T>>, <<"response", T>>}

\* every call follows the handshake order on a connection of its own, once
C22_Order ==
    \A s \in Sessions : \A T \in RequestTypes :
        /\ CallTrace(s, T) \in
              {<<>>, RefusedTrace, ReturnedTrace} \cup OpenTraces \cup FailedTraces
        /\ CallTrace(s, "StopRecord") # <<>>
              => CallTrace(s, "StartRecord") \notin ({<<>>} \cup OpenTraces)

\* a connection exists exactly while the call it was opened for is going on
C22_ClosedAtEnd ==
    \A s \in Sessions :
        /\ conn[s] # "none"
              => pc[s] \in {"start", "stop"} /\ CallTrace(s, RequestType(s)) \in OpenTraces
        /\ \A T \in RequestTypes :
              /\ CallTrace(s, T) \in OpenTraces => conn[s] # "none" /\ RequestType(s) = T
              /\ CallEnded(s, T) =>
                    /\ CallTrace(s, T) \in {RefusedTrace, ReturnedTrace} \cup FailedTraces
                    /\ RequestType(s) = T => conn[s] = "none"

\* Identify follows a received frame; the request follows a received op 2
C22_SendStep ==
    \A s \in Sessions : \A T \in RequestTypes :
        /\ Count(s, <<"identify", T>>)' > Count(s, <<"identify", T>>)
              => wire[s] # NoFrame /\ nsent[s] >= 1
        /\ Count(s, <<"request", T>>)' > Count(s, <<"request", T>>)
              => wire[s].json = "object" /\ wire[s].op = 2

\* every connection that was closed carried exactly one request
C22_OneRequestPerConnection ==
    \A s \in Sessions : \A T \in RequestTypes :
        InLog(s, <<"close", T>>) => Count(s, <<"request", T>>) = 1

\* at most one request per connection, and exactly one when the call returned
C22_OneRequestPerReturnedCall ==
    \A s \in Sessions : \A T \in RequestTypes :
        /\ Count(s, <<"request", T>>) <= 1
        /\ InLog(s, <<"response", T>>) => Count(s, <<"request", T>>) = 1

\* C22 as stated: in every control call the frames are exchanged in the fixed
\* handshake order on a connection opened for that call alone: Identify
\* (op 1) is sent only after one frame has been received, the request (op 6)
\* only after an Identified (op 2) has been received, exactly one request is
\* sent per connection, no retry is made, and the connection is closed when
\* the call ends, whether it returned or failed.
C22_HandshakeExactlyOneRequest ==
    /\ [](C22_Order /\ C22_ClosedAtEnd /\ C22_OneRequestPerConnection)
    /\ [][C22_SendStep]_vars

\* C22, amended: as above, but at most one request is sent per connection -
\* exactly one on the connection of a call that returned, none on a
\* connection whose call failed during the handshake.
C22_Handshake ==
    /\ [](C22_Order /\ C22_ClosedAtEnd /\ C22_OneRequestPerReturnedCall)
    /\ [][C22_SendStep]_vars

\* one session made a call that returned and a call that failed between
\* Identify and the request
C22_Witness ==
    \E s \in Sessions :
        /\ CallTrace(s, "StartRecord") = ReturnedTrace
        /\ CallTrace(s, "StopRecord") = <<"connect", "identify", "error", "close">>


\* ------------------------------------------------------------------ C23
\* the session has returned from start_recording_A with an outcome
Terminal(s) == pc[s] = "done" /\ outcome[s] \in {"Queued", "Failed"}

\* a poll of the end-of-meeting wait eventually sees the meeting over: no
\* session stays in the wait (or is killed in it) for ever
C23_EndObserved ==
    \A s \in Sessions : []<>(pc[s] \notin {"await_end", "killed"})

\* every control call eventually returns or raises: no session stays inside
\* _obs_request for ever
C23_CallsEnd ==
    \A s \in Sessions :
        []<>(cpc[s] \notin {"connect", "hello", "identified", "response"})

\* after its end a session sends no request, appends nothing and stays ended
C23_TerminalStep ==
    \A s \in Sessions :
        Terminal(s) =>
            /\ Terminal(s)'
            /\ log'[s] = log[s]
            /\ conn'[s] = "none"
            /\ (\A o \in Sessions \ {s} : pc[o] \in {"off", "done"}) => store' = store

\* C23: every session execution eventually reaches a terminal outcome (Queued
\* or Failed), provided that a poll of the end-of-meeting wait eventually
\* observes the end of the meeting and that each control call eventually
\* returns or fails; after the terminal outcome the session sends no further
\* control request and makes no further queue append.
C23_SessionTerminates ==
    /\ (C23_EndObserved /\ C23_CallsEnd)
          => \A s \in Sessions : <>[](pc[s] # "off" => Terminal(s))
    /\ [][C23_TerminalStep]_vars

\* a session ended after both calls, the wait and the append
C23_Witness ==
    \E s \in Sessions :
        /\ Terminal(s)
        /\ KindInLog(s, "wait_end")
        /\ InLog(s, <<"response", "StopRecord">>)
        /\ InLog(s, <<"append", "">>)

====
